---- MODULE Spec2Model ----
(***************************************************************************)
(* A model of bittensor/keyfile.py: the keyfile codec, the two encryption  *)
(* formats, the password sources and the keyfile object over one path.     *)
(*                                                                         *)
(* Byte strings are sequences of integers.  The two magic markers, "0x",   *)
(* the quote and the environment-variable names are spelled with their     *)
(* ASCII codes; a key, seed, mnemonic, address or JSON string value is one *)
(* integer token (>= 1000) standing for its characters.                    *)
(***************************************************************************)
EXTENDS Integers, Sequences, FiniteSets, TLC

VARIABLES
    file,       \* the file at keyfile.path: [exists, data, mode]
    dirExists,  \* whether os.path.dirname(path) exists
    environ,    \* os.environ: a set of [name, value]
    lastOp,     \* the last keyfile call: its arguments, inputs, outcome and steps
    pre,        \* what the last call found at the path: [exists, mode, encrypted]
    lastSet,    \* the keypair of the last successful set_keypair (NoKeypair if none)
    call,       \* the last call of a module-level function: [fn, ...]
    mock,       \* a Mockkeyfile object: [mock_keypair, mock_data]
    writer,     \* a process writing the file: where it is in its write and with what
    reader      \* a process reading the file meanwhile: what it last observed

vars == <<file, dirExists, environ, lastOp, pre, lastSet, call, mock, writer, reader>>

---------------------------------------------------------------------------
(* Bounds *)

NumIds == 1       \* identities 1..NumIds
NumPw == 2        \* passwords 1..NumPw (password 1 is weak); 0 is the empty string
MaxSalt == 1      \* salts 1..MaxSalt an encryption may draw
MaxTyped == 2     \* getpass answers one call may consume while asking for a new password
MaxTail == 1      \* bytes appended to a marker prefix when classifying
MaxPrompts == 4   \* getpass answers scripted for one run of the new-password loop
MaxEnv == 2       \* variables in the environment of one password lookup

---------------------------------------------------------------------------
(* Values *)

None == 0
NonePw == 0 - 1
EmptyPw == 0
NoneName == <<0>>

Ids == 1..NumIds
Passwords == 1..NumPw
Typable == 0..NumPw
Salts == 1..MaxSalt

Min(a, b) == IF a < b THEN a ELSE b

\* Python's s[:n]
Take(s, n) == SubSeq(s, 1, Min(n, Len(s)))

\* Python's s[n:]
Drop(s, n) == SubSeq(s, Min(n, Len(s)) + 1, Len(s))

VaultMagic == <<36, 65, 78, 83, 73, 66, 76, 69, 95, 86, 65, 85, 76, 84>>  \* $ANSIBLE_VAULT
LegacyMagic == <<103, 65, 65, 65, 65, 65>>                                \* gAAAAA
HexPrefix == <<48, 120>>                                                  \* 0x
LBrace == 123
RBrace == 125
Quote == 34

---------------------------------------------------------------------------
(* bittensor.Keypair: the external key material *)

PublicBase == 1000
PrivateBase == 2000
SeedBase == 3000
MnemonicBase == 4000
AddressBase == 5000
DerivedOffset == 500

NoKeypair ==
    [public_key |-> None, private_key |-> None, mnemonic |-> None,
     seed_hex |-> None, ss58_address |-> None]

IsPublicKey(v) == v > PublicBase /\ v < PrivateBase

ss58_encode(public) == public + (AddressBase - PublicBase)
ss58_decode(address) == address - (AddressBase - PublicBase)

create_from_seed(seed) ==
    [public_key |-> seed - (SeedBase - PublicBase),
     private_key |-> seed - (SeedBase - PrivateBase),
     mnemonic |-> None,
     seed_hex |-> seed,
     ss58_address |-> ss58_encode(seed - (SeedBase - PublicBase))]

create_from_mnemonic(mnemonic) ==
    [create_from_seed(mnemonic - (MnemonicBase - SeedBase)) EXCEPT !.mnemonic = mnemonic]

\* a key derived along a path: a private key, but neither seed nor mnemonic
create_from_uri(i) ==
    [public_key |-> PublicBase + DerivedOffset + i,
     private_key |-> PrivateBase + DerivedOffset + i,
     mnemonic |-> None,
     seed_hex |-> None,
     ss58_address |-> ss58_encode(PublicBase + DerivedOffset + i)]

\* Keypair(ss58_address = a)
KeypairFromAddress(address) ==
    [public_key |-> ss58_decode(address), private_key |-> None, mnemonic |-> None,
     seed_hex |-> None, ss58_address |-> address]

\* the keypairs a caller stores: one per identity made from a seed, and one each
\* made from a mnemonic, derived along a path, and holding an address only
Keypairs ==
    {create_from_seed(SeedBase + i) : i \in Ids}
        \cup {create_from_mnemonic(MnemonicBase + 1), create_from_uri(1),
              KeypairFromAddress(AddressBase + 1)}

---------------------------------------------------------------------------
(* The codec *)

StringBase == 10000

\* "0x" + value.hex() as a JSON string, or null
HexString(v) == IF v = None THEN None ELSE StringBase + v

\* bytes.fromhex(s.replace('0x', ''))
FromHexString(s) == s - StringBase

\* faulty variant: keys whose value is null are left out
JsonDumpsDictSkipNull(d) ==
    <<LBrace>>
        \o SelectSeq(<<d.accountId, d.publicKey, d.secretPhrase, d.secretSeed, d.ss58Address>>,
                     LAMBDA v : v # None)
        \o <<RBrace>>

\* json.dumps of a dictionary with the five keys, in their order
JsonDumpsDict(d) ==
    <<LBrace, d.accountId, d.publicKey, d.secretPhrase, d.secretSeed, d.ss58Address, RBrace>>

\* faulty variant: the seed is not written
serialized_without_seed(keypair) ==
    JsonDumpsDict([accountId |-> HexString(keypair.public_key),
                   publicKey |-> HexString(keypair.public_key),
                   secretPhrase |-> keypair.mnemonic,
                   secretSeed |-> None,
                   ss58Address |-> keypair.ss58_address])

serialized_keypair_to_keyfile_data(keypair) ==
    JsonDumpsDict([accountId |-> HexString(keypair.public_key),
                   publicKey |-> HexString(keypair.public_key),
                   secretPhrase |-> keypair.mnemonic,
                   secretSeed |-> HexString(keypair.seed_hex),
                   ss58Address |-> keypair.ss58_address])

\* dict(json.loads(text)): the dictionary, or a failure
JsonLoads(text) ==
    IF Len(text) = 7 /\ text[1] = LBrace /\ text[7] = RBrace
    THEN [ok |-> TRUE,
          dict |-> [accountId |-> text[2], publicKey |-> text[3], secretPhrase |-> text[4],
                    secretSeed |-> text[5], ss58Address |-> text[6]]]
    ELSE [ok |-> FALSE,
          dict |-> [accountId |-> None, publicKey |-> None, secretPhrase |-> None,
                    secretSeed |-> None, ss58Address |-> None]]

\* faulty variant: the mnemonic is looked at before the seed
KeypairFromDictPhraseFirst(keyfile_dict) ==
    IF keyfile_dict.secretPhrase # None
    THEN [err |-> "ok", keypair |-> create_from_mnemonic(keyfile_dict.secretPhrase)]
    ELSE IF keyfile_dict.secretSeed # None
    THEN [err |-> "ok", keypair |-> create_from_seed(FromHexString(keyfile_dict.secretSeed))]
    ELSE IF keyfile_dict.ss58Address # None
    THEN [err |-> "ok", keypair |-> KeypairFromAddress(keyfile_dict.ss58Address)]
    ELSE [err |-> "KeyFileError", keypair |-> NoKeypair]

\* faulty variant: a record with none of the three fields is rebuilt from publicKey
KeypairFromDictPublicKey(keyfile_dict) ==
    IF keyfile_dict.secretSeed # None
    THEN [err |-> "ok", keypair |-> create_from_seed(FromHexString(keyfile_dict.secretSeed))]
    ELSE IF keyfile_dict.secretPhrase # None
    THEN [err |-> "ok", keypair |-> create_from_mnemonic(keyfile_dict.secretPhrase)]
    ELSE IF keyfile_dict.ss58Address # None
    THEN [err |-> "ok", keypair |-> KeypairFromAddress(keyfile_dict.ss58Address)]
    ELSE IF keyfile_dict.publicKey # None
    THEN [err |-> "ok",
          keypair |-> KeypairFromAddress(ss58_encode(FromHexString(keyfile_dict.publicKey)))]
    ELSE [err |-> "KeyFileError", keypair |-> NoKeypair]

KeypairFromDict(keyfile_dict) ==
    IF keyfile_dict.secretSeed # None
    THEN [err |-> "ok", keypair |-> create_from_seed(FromHexString(keyfile_dict.secretSeed))]
    ELSE IF keyfile_dict.secretPhrase # None
    THEN [err |-> "ok", keypair |-> create_from_mnemonic(keyfile_dict.secretPhrase)]
    ELSE IF keyfile_dict.ss58Address # None
    THEN [err |-> "ok", keypair |-> KeypairFromAddress(keyfile_dict.ss58Address)]
    ELSE [err |-> "KeyFileError", keypair |-> NoKeypair]

\* faulty variant: text that is no JSON is refused, a raw public key included
deserialize_json_only(keyfile_data) ==
    LET parsed == JsonLoads(keyfile_data)
    IN  IF parsed.ok
        THEN KeypairFromDict(parsed.dict)
        ELSE [err |-> "KeyFileError", keypair |-> NoKeypair]

\* a byte that occurs in no UTF-8 text
InvalidByte == 255

\* keyfile_data.decode() succeeds
Utf8Valid(keyfile_data) == \A i \in DOMAIN keyfile_data : keyfile_data[i] # InvalidByte

deserialize_keypair_from_keyfile_data(keyfile_data) ==
    LET parsed == JsonLoads(keyfile_data)
    IN  IF ~Utf8Valid(keyfile_data)
        THEN [err |-> "UnicodeDecodeError", keypair |-> NoKeypair]
        ELSE IF parsed.ok
        THEN KeypairFromDict(parsed.dict)
        ELSE IF Take(keyfile_data, 2) = HexPrefix
        THEN IF Len(keyfile_data) = 3 /\ IsPublicKey(keyfile_data[3])
             THEN KeypairFromDict([accountId |-> None, publicKey |-> None,
                                   secretPhrase |-> None, secretSeed |-> None,
                                   ss58Address |-> ss58_encode(keyfile_data[3])])
             ELSE [err |-> "ValueError", keypair |-> NoKeypair]
        ELSE [err |-> "KeyFileError", keypair |-> NoKeypair]

\* what the KeyFileError of deserialize_keypair_from_keyfile_data is formatted
\* with: the dictionary (its five values) when one was parsed, else the text
KeyFileErrorContent(keyfile_data) ==
    LET parsed == JsonLoads(keyfile_data)
    IN  IF parsed.ok
        THEN <<parsed.dict.accountId, parsed.dict.publicKey, parsed.dict.secretPhrase,
               parsed.dict.secretSeed, parsed.dict.ss58Address>>
        ELSE keyfile_data

---------------------------------------------------------------------------
(* The password policy *)

WeakPassword == 1

\* PasswordPolicy(strength, entropybits, length).password(p).test() reports nothing
PolicyPasses(password) == password # WeakPassword

\* faulty variant: the retyped password is not compared
validate_password_unconfirmed(password, retyped) ==
    IF password = NonePw \/ password = EmptyPw
    THEN [valid |-> FALSE, asked |-> FALSE]
    ELSE IF ~PolicyPasses(password)
    THEN [valid |-> FALSE, asked |-> FALSE]
    ELSE [valid |-> TRUE, asked |-> TRUE]

\* validate_password: the verdict, and whether the retype prompt was issued
validate_password(password, retyped) ==
    IF password = NonePw \/ password = EmptyPw
    THEN [valid |-> FALSE, asked |-> FALSE]
    ELSE IF ~PolicyPasses(password)
    THEN [valid |-> FALSE, asked |-> FALSE]
    ELSE [valid |-> password = retyped, asked |-> TRUE]

\* faulty variant: the first entry is validated once and returned whatever the verdict
ask_password_once(typed) ==
    IF typed = <<>>
    THEN [done |-> FALSE, password |-> NonePw, prompts |-> 0]
    ELSE LET asked == validate_password(Head(typed), Head(typed)).asked
         IN  IF asked /\ Len(typed) < 2
             THEN [done |-> FALSE, password |-> NonePw, prompts |-> 1]
             ELSE [done |-> TRUE, password |-> Head(typed),
                   prompts |-> IF asked THEN 2 ELSE 1]

\* ask_password_to_encrypt over the getpass answers `typed`: done is FALSE when
\* the answers run out before the loop ends
RECURSIVE ask_password_to_encrypt(_)
ask_password_to_encrypt(typed) ==
    IF typed = <<>>
    THEN [done |-> FALSE, password |-> NonePw, prompts |-> 0]
    ELSE LET password == Head(typed)
             needsRetype == validate_password(password, password).asked
         IN  IF needsRetype /\ Len(typed) < 2
             THEN [done |-> FALSE, password |-> NonePw, prompts |-> 1]
             ELSE LET v == validate_password(password, IF needsRetype THEN typed[2] ELSE NonePw)
                      used == IF v.asked THEN 2 ELSE 1
                  IN  IF v.valid
                      THEN [done |-> TRUE, password |-> password, prompts |-> used]
                      ELSE LET rest == ask_password_to_encrypt(Drop(typed, used))
                           IN  [rest EXCEPT !.prompts = @ + used]

\* the answer sequences that make one call of ask_password_to_encrypt return,
\* consuming all of them
TypedSeqs ==
    {t \in UNION {[1..n -> Typable] : n \in 0..MaxTyped} :
        ask_password_to_encrypt(t).done /\ ask_password_to_encrypt(t).prompts = Len(t)}

\* the passwords a call of ask_password_to_encrypt may return
AskedPasswords == {ask_password_to_encrypt(t).password : t \in TypedSeqs}

---------------------------------------------------------------------------
(* The two encryption formats *)

SaltBase == 6000
KeyBase == 7000
LegacyKeyBase == 8000
DecimalBase == 20000

\* VaultLib.encrypt: the envelope of `plaintext` under `password`
VaultEncrypt(plaintext, password, salt) ==
    VaultMagic \o <<SaltBase + salt, KeyBase + password>> \o plaintext

\* VaultLib.decrypt: the plaintext, or the error the library raises
VaultDecrypt(vaulttext, password) ==
    IF Len(vaulttext) < 16 \/ vaulttext[15] <= SaltBase \/ vaulttext[15] >= KeyBase
       \/ vaulttext[16] < KeyBase \/ vaulttext[16] >= LegacyKeyBase
    THEN [err |-> "AnsibleVaultFormatError", data |-> <<>>]
    ELSE IF vaulttext[16] # KeyBase + password
    THEN [err |-> "AnsibleVaultError", data |-> <<>>]
    ELSE [err |-> "ok", data |-> Drop(vaulttext, 16)]

\* yaml.safe_load of a decrypted document
YamlSafeLoad(text) ==
    IF JsonLoads(text).ok
    THEN [t |-> "dict", dict |-> JsonLoads(text).dict, text |-> <<>>]
    ELSE IF text = <<>>
    THEN [t |-> "none", dict |-> JsonLoads(text).dict, text |-> <<>>]
    ELSE IF Len(text) = 3 /\ Take(text, 2) = HexPrefix
    THEN [t |-> "int", dict |-> JsonLoads(text).dict, text |-> Drop(text, 2)]
    ELSE [t |-> "str", dict |-> JsonLoads(text).dict, text |-> text]

\* json.dumps(value).encode()
JsonDumps(value) ==
    IF value.t = "dict" THEN JsonDumpsDict(value.dict)
    ELSE IF value.t = "none" THEN <<110, 117, 108, 108>>
    ELSE IF value.t = "int" THEN <<DecimalBase + value.text[1]>>
    ELSE <<Quote>> \o value.text \o <<Quote>>

\* Vault(password).load(data): the decrypted document, parsed
VaultLoad(keyfile_data, password) ==
    LET d == VaultDecrypt(keyfile_data, password)
    IN  [err |-> d.err, value |-> YamlSafeLoad(d.data)]

\* base64.urlsafe_b64encode(PBKDF2HMAC(SHA256, salt = __SALT, length = 32,
\* iterations = 10000000).derive(password))
LegacyKey(password) == LegacyKeyBase + password

\* Fernet(key).encrypt(plaintext)
FernetEncrypt(key, plaintext) == LegacyMagic \o <<key>> \o plaintext

\* Fernet(key).decrypt(token)
FernetDecrypt(key, token) ==
    IF Len(token) < 7 \/ token[7] # key
    THEN [err |-> "InvalidToken", data |-> <<>>]
    ELSE [err |-> "ok", data |-> Drop(token, 7)]

keyfile_data_is_encrypted_ansible(keyfile_data) == Take(keyfile_data, 14) = VaultMagic

\* faulty variant: one byte of the marker is left out of the comparison
legacy_marker_short(keyfile_data) == Take(keyfile_data, 5) = Take(LegacyMagic, 5)

keyfile_data_is_encrypted_legacy(keyfile_data) == Take(keyfile_data, 6) = LegacyMagic

\* faulty variant: only the vault marker counts as encrypted
keyfile_data_is_encrypted_vault_only(keyfile_data) ==
    keyfile_data_is_encrypted_ansible(keyfile_data)

keyfile_data_is_encrypted(keyfile_data) ==
    keyfile_data_is_encrypted_ansible(keyfile_data)
        \/ keyfile_data_is_encrypted_legacy(keyfile_data)

\* faulty variant: the data is sealed in the legacy format
encrypt_keyfile_data_fernet(keyfile_data, password, asked, salt) ==
    LET pw == IF password = NonePw THEN asked ELSE password
    IN  [password |-> pw,
         trace |-> (IF password = NonePw THEN <<"prompt_new">> ELSE <<>>)
                      \o <<"vault_encrypt">>,
         data |-> FernetEncrypt(LegacyKey(pw), keyfile_data)]

\* encrypt_keyfile_data: `asked` is what ask_password_to_encrypt() returns, called
\* when password is None
encrypt_keyfile_data(keyfile_data, password, asked, salt) ==
    LET pw == IF password = NonePw THEN asked ELSE password
    IN  [password |-> pw,
         trace |-> (IF password = NonePw THEN <<"prompt_new">> ELSE <<>>)
                      \o <<"vault_encrypt">>,
         data |-> VaultEncrypt(keyfile_data, pw, salt)]

---------------------------------------------------------------------------
(* The environment *)

PwPrefix == <<66, 84, 95, 67, 79, 76, 68, 95, 80, 87, 95>>   \* BT_COLD_PW_

\* str.upper()
Upper(s) == [i \in 1..Len(s) |-> IF s[i] >= 97 /\ s[i] <= 122 THEN s[i] - 32 ELSE s[i]]

StartsWith(s, p) == Len(s) >= Len(p) /\ SubSeq(s, 1, Len(p)) = p

EndsWith(s, p) == Len(s) >= Len(p) /\ SubSeq(s, Len(s) - Len(p) + 1, Len(s)) = p

EnvMatches(env_var, coldkey_name) ==
    StartsWith(Upper(env_var), PwPrefix) /\ EndsWith(Upper(env_var), Upper(coldkey_name))

\* get_coldkey_password_from_environment: the values it may return (the first
\* match in the iteration order of os.environ), {NonePw} when nothing matches
get_coldkey_password_from_environment(coldkey_name, env) ==
    IF \E v \in env : EnvMatches(v.name, coldkey_name)
    THEN {v.value : v \in {w \in env : EnvMatches(w.name, coldkey_name)}}
    ELSE {NonePw}

\* faulty variant: the environment is consulted even when a password is passed
ResolvePasswordEnvFirst(password, coldkey_name, envpw, typed) ==
    LET useEnv == coldkey_name # NoneName
        pw1 == IF useEnv /\ envpw # NonePw THEN envpw ELSE password
        prompt == pw1 = NonePw
    IN  [password |-> IF prompt THEN typed ELSE pw1,
         trace |-> (IF useEnv THEN <<"env">> ELSE <<>>)
                      \o (IF prompt THEN <<"prompt_unlock">> ELSE <<>>)]

\* the password decrypt_keyfile_data settles on and the sources it consults: envpw
\* is what the environment lookup returns, typed the answer to the unlock prompt
ResolvePassword(password, coldkey_name, envpw, typed) ==
    LET useEnv == coldkey_name # NoneName /\ password = NonePw
        pw1 == IF useEnv THEN envpw ELSE password
        prompt == pw1 = NonePw
    IN  [password |-> IF prompt THEN typed ELSE pw1,
         trace |-> (IF useEnv THEN <<"env">> ELSE <<>>)
                      \o (IF prompt THEN <<"prompt_unlock">> ELSE <<>>)]

\* the ansible branch: Vault(password).load, AnsibleVaultError turned into KeyFileError
AnsibleBranch(keyfile_data, password) ==
    LET loaded == VaultLoad(keyfile_data, password)
    IN  IF loaded.err = "AnsibleVaultError"
        THEN [err |-> "KeyFileError", msg |-> "Invalid password", data |-> <<>>]
        ELSE IF loaded.err # "ok"
        THEN [err |-> loaded.err, msg |-> "", data |-> <<>>]
        ELSE [err |-> "ok", msg |-> "",
              data |-> JsonDumps(loaded.value)]

\* faulty variant: InvalidToken is not caught
LegacyBranchUncaught(keyfile_data, password) ==
    LET d == FernetDecrypt(LegacyKey(password), keyfile_data)
    IN  [err |-> d.err, msg |-> "", data |-> d.data]

\* faulty variant: the key is derived with other parameters than the blob's
LegacyBranchDrifted(keyfile_data, password) ==
    LET d == FernetDecrypt(LegacyKey(password) + 1, keyfile_data)
    IN  IF d.err = "InvalidToken"
        THEN [err |-> "KeyFileError", msg |-> "Invalid password", data |-> <<>>]
        ELSE [err |-> "ok", msg |-> "", data |-> d.data]

\* the legacy branch: the key derived from the password, Fernet's InvalidToken
\* turned into KeyFileError
LegacyBranch(keyfile_data, password) ==
    LET d == FernetDecrypt(LegacyKey(password), keyfile_data)
    IN  IF d.err = "InvalidToken"
        THEN [err |-> "KeyFileError", msg |-> "Invalid password", data |-> <<>>]
        ELSE [err |-> "ok", msg |-> "", data |-> d.data]

\* faulty variant: bytes that carry neither marker are handed back as they are
decrypt_keyfile_data_passthrough(keyfile_data, password, coldkey_name, envpw, typed) ==
    LET pw == ResolvePassword(password, coldkey_name, envpw, typed)
        d == IF keyfile_data_is_encrypted_ansible(keyfile_data)
             THEN AnsibleBranch(keyfile_data, pw.password)
             ELSE IF keyfile_data_is_encrypted_legacy(keyfile_data)
             THEN LegacyBranch(keyfile_data, pw.password)
             ELSE [err |-> "ok", msg |-> "", data |-> keyfile_data]
    IN  [err |-> d.err, msg |-> d.msg, data |-> d.data, trace |-> pw.trace,
         used |-> pw.password]

\* faulty variant: after a wrong password the prompt is issued and the data tried
\* once more
decrypt_keyfile_data_retrying(keyfile_data, password, coldkey_name, envpw, typed) ==
    LET pw == ResolvePassword(password, coldkey_name, envpw, typed)
        first == IF keyfile_data_is_encrypted_ansible(keyfile_data)
                 THEN AnsibleBranch(keyfile_data, pw.password)
                 ELSE IF keyfile_data_is_encrypted_legacy(keyfile_data)
                 THEN LegacyBranch(keyfile_data, pw.password)
                 ELSE [err |-> "KeyFileError", msg |-> "corrupt", data |-> <<>>]
        again == first.msg = "Invalid password"
        d == IF ~again THEN first
             ELSE IF keyfile_data_is_encrypted_ansible(keyfile_data)
             THEN AnsibleBranch(keyfile_data, typed)
             ELSE LegacyBranch(keyfile_data, typed)
        step == IF keyfile_data_is_encrypted_ansible(keyfile_data) THEN <<"vault_decrypt">>
                ELSE IF keyfile_data_is_encrypted_legacy(keyfile_data)
                THEN <<"legacy_decrypt">>
                ELSE <<>>
    IN  [err |-> d.err, msg |-> d.msg, data |-> d.data,
         trace |-> pw.trace \o step
                     \o (IF again THEN <<"prompt_unlock">> \o step ELSE <<>>),
         used |-> IF again THEN typed ELSE pw.password]

decrypt_keyfile_data(keyfile_data, password, coldkey_name, envpw, typed) ==
    LET pw == ResolvePassword(password, coldkey_name, envpw, typed)
        d == IF keyfile_data_is_encrypted_ansible(keyfile_data)
             THEN AnsibleBranch(keyfile_data, pw.password)
             ELSE IF keyfile_data_is_encrypted_legacy(keyfile_data)
             THEN LegacyBranch(keyfile_data, pw.password)
             ELSE [err |-> "KeyFileError", msg |-> "corrupt", data |-> <<>>]
        step == IF keyfile_data_is_encrypted_ansible(keyfile_data) THEN <<"vault_decrypt">>
                ELSE IF keyfile_data_is_encrypted_legacy(keyfile_data)
                THEN <<"legacy_decrypt">>
                ELSE <<>>
    IN  [err |-> d.err, msg |-> d.msg, data |-> d.data, trace |-> pw.trace \o step,
         used |-> pw.password]

---------------------------------------------------------------------------
(* The keyfile object *)

S_IRUSR == 256
S_IWUSR == 128

\* os.access(path, os.R_OK) and os.access(path, os.W_OK) for the owner of the file
Readable(mode) == (mode \div S_IRUSR) % 2 = 1
Writable(mode) == (mode \div S_IWUSR) % 2 = 1

\* the permission bits a file may carry: 000, 400, 600, 644
Modes == {0, 256, 384, 420}

\* the bits open(path, "wb") gives a new file: 0o666 & ~umask for umask 022 and 077
CreateModes == {420, 384}

\* Path(self.path).parent.stem: the keyfile's name, "w"
KeyfileName == <<119>>

NoFile == [exists |-> FALSE, data |-> <<>>, mode |-> 0]

exists_on_device(f) == f.exists

is_readable(f) ==
    IF ~exists_on_device(f) THEN FALSE
    ELSE IF ~Readable(f.mode) THEN FALSE
    ELSE TRUE

is_writable(f) == f.exists /\ Writable(f.mode)

\* faulty variant: the readability check is left out
is_encrypted_unchecked(f) == f.exists /\ keyfile_data_is_encrypted(f.data)

is_encrypted(f) ==
    IF ~exists_on_device(f) THEN FALSE
    ELSE IF ~is_readable(f) THEN FALSE
    ELSE keyfile_data_is_encrypted(f.data)

\* faulty variant: every answer but n allows the overwrite
may_overwrite_unless_n(answer) == answer # "n"

\* faulty variant: the question defaults to yes, as "(Y/n)" would
may_overwrite_default_yes(answer) == answer \in {"y", ""}

\* _may_overwrite: the answer to "Overwrite? (y/N)"
may_overwrite(answer) == answer = "y"

Answers == {"y", "n", "Y"}

\* what a call reports: its outcome, the steps it took, the file it leaves
Result(outcome, msg, trace, f, ret, used) ==
    [outcome |-> outcome, msg |-> msg, trace |-> trace, file |-> f, ret |-> ret,
     used |-> used]

\* faulty variant: the file is opened without the readability check
read_unchecked(f) ==
    IF ~exists_on_device(f)
    THEN [err |-> "KeyFileError", msg |-> "does not exist", data |-> <<>>, trace |-> <<>>]
    ELSE [err |-> "ok", msg |-> "", data |-> f.data, trace |-> <<"read">>]

read_keyfile_data_from_file(f) ==
    IF ~exists_on_device(f)
    THEN [err |-> "KeyFileError", msg |-> "does not exist", data |-> <<>>, trace |-> <<>>]
    ELSE IF ~is_readable(f)
    THEN [err |-> "KeyFileError", msg |-> "is not readable", data |-> <<>>, trace |-> <<>>]
    ELSE [err |-> "ok", msg |-> "", data |-> f.data, trace |-> <<"read">>]

\* faulty variant: the chmod is left out
ChmodSkipped(mode) == mode

\* os.chmod(self.path, stat.S_IRUSR | stat.S_IWUSR)
ChmodOwnerOnly(mode) == S_IRUSR + S_IWUSR

\* faulty variant: a file that cannot be opened for writing is removed
write_removing_unwritable(f, keyfile_data, overwrite, answer, createMode) ==
    LET ask == exists_on_device(f) /\ ~overwrite
        steps == IF ask THEN <<"confirm">> ELSE <<>>
    IN  IF ask /\ ~may_overwrite(answer)
        THEN [err |-> "KeyFileError", msg |-> "is not writable", trace |-> steps, file |-> f]
        ELSE IF f.exists /\ ~Writable(f.mode)
        THEN [err |-> "PermissionError", msg |-> "", trace |-> steps \o <<"open">>,
              file |-> NoFile]
        ELSE [err |-> "ok", msg |-> "", trace |-> steps \o <<"open", "write", "chmod">>,
              file |-> [exists |-> TRUE, data |-> keyfile_data,
                        mode |-> ChmodOwnerOnly(IF f.exists THEN f.mode ELSE createMode)]]

\* faulty variant: the file is opened, and so emptied, before the question is put
write_truncating_first(f, keyfile_data, overwrite, answer, createMode) ==
    LET ask == exists_on_device(f) /\ ~overwrite
        steps == IF ask THEN <<"confirm">> ELSE <<>>
    IN  IF f.exists /\ ~Writable(f.mode)
        THEN [err |-> "PermissionError", msg |-> "", trace |-> <<"open">>, file |-> f]
        ELSE IF ask /\ ~may_overwrite(answer)
        THEN [err |-> "KeyFileError", msg |-> "is not writable",
              trace |-> <<"open">> \o steps, file |-> [f EXCEPT !.data = <<>>]]
        ELSE [err |-> "ok", msg |-> "", trace |-> steps \o <<"open", "write", "chmod">>,
              file |-> [exists |-> TRUE, data |-> keyfile_data,
                        mode |-> ChmodOwnerOnly(IF f.exists THEN f.mode ELSE createMode)]]

write_keyfile_data_to_file(f, keyfile_data, overwrite, answer, createMode) ==
    LET ask == exists_on_device(f) /\ ~overwrite
        steps == IF ask THEN <<"confirm">> ELSE <<>>
    IN  IF ask /\ ~may_overwrite(answer)
        THEN [err |-> "KeyFileError", msg |-> "is not writable", trace |-> steps, file |-> f]
        ELSE IF f.exists /\ ~Writable(f.mode)
        THEN [err |-> "PermissionError", msg |-> "", trace |-> steps \o <<"open">>,
              file |-> f]
        ELSE [err |-> "ok", msg |-> "", trace |-> steps \o <<"open", "write", "chmod">>,
              file |-> [exists |-> TRUE, data |-> keyfile_data,
                        mode |-> ChmodOwnerOnly(IF f.exists THEN f.mode ELSE createMode)]]

set_keypair(f, keypair, encrypt, overwrite, password, asked, salt, answer, createMode) ==
    LET plain == serialized_keypair_to_keyfile_data(keypair)
        enc == encrypt_keyfile_data(plain, password, asked, salt)
        keyfile_data == IF encrypt THEN enc.data ELSE plain
        steps == <<"make_dirs", "encode">> \o (IF encrypt THEN enc.trace ELSE <<>>)
        w == write_keyfile_data_to_file(f, keyfile_data, overwrite, answer, createMode)
    IN  Result(w.err, w.msg, steps \o w.trace, w.file, NoKeypair,
               IF encrypt THEN enc.password ELSE NonePw)

\* faulty variant: the object keeps the keypair it was given and answers from it
get_keypair_cached(f, password, envpw, typed) ==
    IF lastSet # NoKeypair
    THEN Result("ok", "", <<>>, f, lastSet, NonePw)
    ELSE Result("KeyFileError", "does not exist", <<>>, f, NoKeypair, NonePw)

\* faulty variant: the decrypted bytes are left in the file
get_keypair_unlocking(f, password, envpw, typed) ==
    LET r == read_keyfile_data_from_file(f)
        d == decrypt_keyfile_data(r.data, password, KeyfileName, envpw, typed)
        encrypted == keyfile_data_is_encrypted(r.data)
        keyfile_data == IF encrypted THEN d.data ELSE r.data
        steps == r.trace \o (IF encrypted THEN d.trace ELSE <<>>)
        k == deserialize_keypair_from_keyfile_data(keyfile_data)
    IN  IF r.err # "ok" THEN Result(r.err, r.msg, r.trace, f, NoKeypair, NonePw)
        ELSE IF encrypted /\ d.err # "ok" THEN Result(d.err, d.msg, steps, f, NoKeypair, d.used)
        ELSE Result(k.err, IF k.err = "ok" THEN "" ELSE "could not be created",
                    steps \o <<"decode">>, [f EXCEPT !.data = keyfile_data], k.keypair,
                    IF encrypted THEN d.used ELSE NonePw)

get_keypair(f, password, envpw, typed) ==
    LET r == read_keyfile_data_from_file(f)
        d == decrypt_keyfile_data(r.data, password, KeyfileName, envpw, typed)
        encrypted == keyfile_data_is_encrypted(r.data)
        keyfile_data == IF encrypted THEN d.data ELSE r.data
        steps == r.trace \o (IF encrypted THEN d.trace ELSE <<>>)
        k == deserialize_keypair_from_keyfile_data(keyfile_data)
    IN  IF r.err # "ok" THEN Result(r.err, r.msg, r.trace, f, NoKeypair, NonePw)
        ELSE IF encrypted /\ d.err # "ok" THEN Result(d.err, d.msg, steps, f, NoKeypair, d.used)
        ELSE Result(k.err, IF k.err = "ok" THEN "" ELSE "could not be created",
                    steps \o <<"decode">>, f, k.keypair,
                    IF encrypted THEN d.used ELSE NonePw)

\* faulty variant: writable is checked before readable
PreconditionsSwapped(f) ==
    IF ~exists_on_device(f) THEN "does not exist"
    ELSE IF ~is_writable(f) THEN "is not writable"
    ELSE IF ~is_readable(f) THEN "is not readable"
    ELSE ""

\* the three checks encrypt() and decrypt() start with
Preconditions(f) ==
    IF ~exists_on_device(f) THEN "does not exist"
    ELSE IF ~is_readable(f) THEN "is not readable"
    ELSE IF ~is_writable(f) THEN "is not writable"
    ELSE ""

encrypt(f, password, asked, salt) ==
    LET failed == Preconditions(f)
        r == read_keyfile_data_from_file(f)
        encrypted == keyfile_data_is_encrypted(r.data)
        k == deserialize_keypair_from_keyfile_data(r.data)
        enc == encrypt_keyfile_data(serialized_keypair_to_keyfile_data(k.keypair),
                                    password, asked, salt)
        keyfile_data == IF encrypted THEN r.data ELSE enc.data
        steps == r.trace \o (IF encrypted THEN <<>> ELSE <<"decode", "encode">> \o enc.trace)
        w == write_keyfile_data_to_file(f, keyfile_data, TRUE, "", 0)
    IN  IF failed # "" THEN Result("KeyFileError", failed, <<>>, f, NoKeypair, NonePw)
        ELSE IF ~encrypted /\ k.err # "ok"
        THEN Result(k.err, "could not be created", r.trace \o <<"decode">>, f, NoKeypair,
                    NonePw)
        ELSE Result(w.err, w.msg, steps \o w.trace, w.file, NoKeypair,
                    IF encrypted THEN NonePw ELSE enc.password)

decrypt(f, password, envpw, typed) ==
    LET failed == Preconditions(f)
        r == read_keyfile_data_from_file(f)
        encrypted == keyfile_data_is_encrypted(r.data)
        d == decrypt_keyfile_data(r.data, password, KeyfileName, envpw, typed)
        plain == IF encrypted THEN d.data ELSE r.data
        steps == r.trace \o (IF encrypted THEN d.trace ELSE <<>>)
        k == deserialize_keypair_from_keyfile_data(plain)
        w == write_keyfile_data_to_file(f, serialized_keypair_to_keyfile_data(k.keypair),
                                        TRUE, "", 0)
    IN  IF failed # "" THEN Result("KeyFileError", failed, <<>>, f, NoKeypair, NonePw)
        ELSE IF encrypted /\ d.err # "ok"
        THEN Result(d.err, d.msg, steps, f, NoKeypair, d.used)
        ELSE IF k.err # "ok"
        THEN Result(k.err, "could not be created", steps \o <<"decode">>, f, NoKeypair,
                    IF encrypted THEN d.used ELSE NonePw)
        ELSE Result(w.err, w.msg, steps \o <<"decode", "encode">> \o w.trace, w.file,
                    NoKeypair, IF encrypted THEN d.used ELSE NonePw)

---------------------------------------------------------------------------
(* The state machine: calls on one keyfile object, and what else touches its path *)

\* what the queries and the data accessor of a keyfile answer
Seen(f) ==
    [exists |-> exists_on_device(f), readable |-> is_readable(f),
     writable |-> is_writable(f), encrypted |-> is_encrypted(f),
     data |-> read_keyfile_data_from_file(f).data]

NoSeen == [exists |-> FALSE, readable |-> FALSE, writable |-> FALSE,
           encrypted |-> FALSE, data |-> <<>>]

NoOp ==
    [name |-> "init", encrypt |-> FALSE, overwrite |-> FALSE, password |-> NonePw,
     answer |-> "unasked", outcome |-> "ok", msg |-> "", trace |-> <<>>,
     used |-> NonePw, ret |-> NoKeypair, sameData |-> TRUE, sameMode |-> TRUE,
     seen |-> NoSeen]

NoCall == [fn |-> "none", data |-> <<>>, password |-> NonePw, other |-> NonePw,
           err |-> "ok", msg |-> "", out |-> <<>>, flags |-> <<>>]

\* Mockkeyfile.__init__: self._mock_keypair = None, self._mock_data = None
NoMock == [mock_keypair |-> NoKeypair, mock_data |-> None]

\* no write under way, nothing observed
NoWriter == [pc |-> "idle", name |-> "none", before |-> [exists |-> FALSE, data |-> <<>>],
             keyfile_data |-> <<>>]

NoReader == [op |-> "none", at |-> "idle", seen |-> [exists |-> FALSE, data |-> <<>>],
             outcome |-> "ok", encrypted |-> FALSE]

PasswordArgs == Passwords \cup {NonePw}

\* bt_cold_pw_w, BT_COLD_PW_V
EnvNameLower == <<98, 116, 95, 99, 111, 108, 100, 95, 112, 119, 95, 119>>
EnvNameOther == PwPrefix \o <<86>>

\* the environments a process may start with
EnvChoices ==
    {{[name |-> EnvNameOther, value |-> NumPw]}, {[name |-> EnvNameLower, value |-> NumPw]}}

\* what other programs leave at the path: a raw public key, a legacy blob,
\* text that is no record, a vault header with nothing behind it
ExternalData ==
    {HexPrefix \o <<PublicBase + 1>>}
        \cup {FernetEncrypt(LegacyKey(p),
                             serialized_keypair_to_keyfile_data(create_from_seed(SeedBase + i))) :
                  i \in {1}, p \in Passwords}
        \cup {<<101, 110, 99>>, VaultMagic}

Count(trace, step) == Cardinality({i \in DOMAIN trace : trace[i] = step})

Has(trace, step) == \E i \in DOMAIN trace : trace[i] = step

\* position of the first occurrence of step in trace, 0 when there is none
Pos(trace, step) ==
    IF Has(trace, step)
    THEN CHOOSE i \in DOMAIN trace : trace[i] = step /\ \A j \in 1..(i - 1) : trace[j] # step
    ELSE 0

\* what a call finds at the path
Found(f) == [exists |-> f.exists, mode |-> f.mode, encrypted |-> is_encrypted(f)]

Record(name, enc, overwrite, password, r) ==
    [name |-> name, encrypt |-> enc, overwrite |-> overwrite, password |-> password,
     answer |-> "unasked", outcome |-> r.outcome, msg |-> r.msg, trace |-> r.trace,
     used |-> r.used, ret |-> r.ret, sameData |-> r.file.data = file.data,
     sameMode |-> r.file.mode = file.mode /\ r.file.exists = file.exists,
     seen |-> NoSeen]

Init ==
    /\ file = NoFile
    /\ dirExists = FALSE
    /\ environ \in EnvChoices
    /\ lastOp = NoOp
    /\ pre = Found(NoFile)
    /\ lastSet = NoKeypair
    /\ call = NoCall
    /\ mock = NoMock
    /\ writer = NoWriter
    /\ reader = NoReader

SetKeypair ==
    \E keypair \in Keypairs, enc \in BOOLEAN, overwrite \in BOOLEAN,
       password \in PasswordArgs :
      \E asked \in (IF enc /\ password = NonePw THEN AskedPasswords ELSE {NonePw}),
         salt \in (IF enc THEN Salts ELSE {1}),
         answer \in (IF file.exists /\ ~overwrite THEN Answers ELSE {""}),
         createMode \in (IF file.exists THEN {0} ELSE CreateModes) :
        \E r \in {set_keypair(file, keypair, enc, overwrite, password, asked, salt, answer,
                             createMode)} :
            /\ file' = r.file
            /\ dirExists' = TRUE
            /\ lastOp' = [Record("set_keypair", enc, overwrite, password, r)
                            EXCEPT !.answer = IF Has(r.trace, "confirm") THEN answer
                                              ELSE "unasked"]
            /\ pre' = Found(file)
            /\ lastSet' = IF r.outcome = "ok" THEN keypair ELSE lastSet
            /\ UNCHANGED <<environ, call, mock, writer, reader>>

GetKeypair ==
    \E password \in PasswordArgs,
       envpw \in get_coldkey_password_from_environment(KeyfileName, environ) :
      \E typed \in (IF password = NonePw /\ envpw = NonePw THEN Typable ELSE {EmptyPw}) :
        \E r \in {get_keypair(file, password, envpw, typed)} :
            /\ file' = r.file
            /\ lastOp' = Record("get_keypair", FALSE, FALSE, password, r)
            /\ pre' = Found(file)
            /\ UNCHANGED <<dirExists, environ, lastSet, call, mock, writer, reader>>

Encrypt ==
    \E password \in PasswordArgs :
      \E asked \in (IF password = NonePw THEN AskedPasswords ELSE {NonePw}),
         salt \in Salts :
        \E r \in {encrypt(file, password, asked, salt)} :
            /\ file' = r.file
            /\ lastOp' = Record("encrypt", FALSE, FALSE, password, r)
            /\ pre' = Found(file)
            /\ UNCHANGED <<dirExists, environ, lastSet, call, mock, writer, reader>>

Decrypt ==
    \E password \in PasswordArgs,
       envpw \in get_coldkey_password_from_environment(KeyfileName, environ) :
      \E typed \in (IF password = NonePw /\ envpw = NonePw THEN Typable ELSE {EmptyPw}) :
        \E r \in {decrypt(file, password, envpw, typed)} :
            /\ file' = r.file
            /\ lastOp' = Record("decrypt", FALSE, FALSE, password, r)
            /\ pre' = Found(file)
            /\ UNCHANGED <<dirExists, environ, lastSet, call, mock, writer, reader>>

\* exists_on_device, is_readable, is_writable, is_encrypted and the data accessor
Query ==
    \E r \in {read_keyfile_data_from_file(file)} :
        /\ lastOp' = [NoOp EXCEPT !.name = "query", !.outcome = r.err, !.msg = r.msg,
                                  !.trace = r.trace, !.seen = Seen(file)]
        /\ pre' = Found(file)
        /\ UNCHANGED <<file, dirExists, environ, lastSet, call, mock, writer, reader>>

\* another program writes the file
ExternalWrite ==
    \E data \in ExternalData :
        /\ file' = [exists |-> TRUE, data |-> data,
                    mode |-> IF file.exists THEN file.mode ELSE 420]
        /\ dirExists' = TRUE
        /\ lastOp' = [NoOp EXCEPT !.name = "external"]
        /\ pre' = Found(file)
        /\ lastSet' = NoKeypair
        /\ UNCHANGED <<environ, call, mock, writer, reader>>

\* the owner changes the file's permission bits
ExternalChmod ==
    \E mode \in Modes :
        /\ file.exists
        /\ file' = [file EXCEPT !.mode = mode]
        /\ lastOp' = [NoOp EXCEPT !.name = "external"]
        /\ pre' = Found(file)
        /\ UNCHANGED <<dirExists, environ, lastSet, call, mock, writer, reader>>

Next ==
    \/ SetKeypair
    \/ GetKeypair
    \/ Encrypt
    \/ Decrypt
    \/ Query
    \/ ExternalWrite
    \/ ExternalChmod

Spec == Init /\ [][Next]_vars

---------------------------------------------------------------------------
(* The module-level functions applied to inputs drawn from bounded sets *)
(* Each call is made on its own: the functions keep no state between calls. *)

\* the bytes that follow a marker prefix: $ g A T {
TailBytes == {36, 103, 65, 84, 123}

Tails == UNION {[1..n -> TailBytes] : n \in 0..MaxTail}

\* every prefix of either marker, followed by a short tail
ClassifyInputs ==
    {Take(m, n) \o t : m \in {VaultMagic, LegacyMagic}, n \in 0..14, t \in Tails}

\* what gets encrypted: keyfile records, a raw public key, plain text, nothing
Plaintexts ==
    {serialized_keypair_to_keyfile_data(k) : k \in Keypairs}
        \cup {HexPrefix \o <<PublicBase + 1>>, <<101, 110, 99>>, <<>>}

Classify ==
    /\ call = NoCall
    /\ \E b \in ClassifyInputs :
           /\ call' = [NoCall EXCEPT !.fn = "classify", !.data = b,
                                     !.flags = <<keyfile_data_is_encrypted_ansible(b),
                                                 keyfile_data_is_encrypted_legacy(b),
                                                 keyfile_data_is_encrypted(b)>>]
           /\ UNCHANGED <<file, dirExists, environ, lastOp, pre, lastSet, mock,
                          writer, reader>>

\* decrypt_keyfile_data(encrypt_keyfile_data(p, w), w2), and the same on a blob
\* the legacy scheme made
RoundTrip ==
    /\ call = NoCall
    /\ \E p \in Plaintexts, w \in Passwords, w2 \in Passwords, salt \in Salts,
          vault \in BOOLEAN :
           \E d \in {decrypt_keyfile_data(
                         IF vault THEN encrypt_keyfile_data(p, w, NonePw, salt).data
                         ELSE FernetEncrypt(LegacyKey(w), p),
                         w2, NoneName, NonePw, EmptyPw)} :
               /\ call' = [fn |-> "roundtrip", data |-> p, password |-> w, other |-> w2,
                           err |-> d.err, msg |-> d.msg, out |-> d.data,
                           flags |-> <<vault, Has(d.trace, "prompt_unlock")>>]
               /\ UNCHANGED <<file, dirExists, environ, lastOp, pre, lastSet, mock,
                              writer, reader>>

\* what decrypt_keyfile_data may be handed: text that carries neither marker,
\* markers cut short, envelopes of either format, and envelopes with nothing or
\* with something else behind the marker
DecryptInputs ==
    Plaintexts
        \cup {Take(VaultMagic, 13), Take(LegacyMagic, 5)}
        \cup {VaultMagic, VaultMagic \o <<59>>, LegacyMagic}
        \cup {VaultEncrypt(<<101, 110, 99>>, w, 1) : w \in Passwords}
        \cup {FernetEncrypt(LegacyKey(w), <<101, 110, 99>>) : w \in Passwords}

\* decrypt_keyfile_data(keyfile_data, password, coldkey_name)
DecryptData ==
    /\ call = NoCall
    /\ \E b \in DecryptInputs, password \in PasswordArgs,
          coldkey_name \in {NoneName, KeyfileName} :
         \E envpw \in (IF coldkey_name # NoneName /\ password = NonePw
                        THEN get_coldkey_password_from_environment(coldkey_name, environ)
                        ELSE {NonePw}) :
           \E typed \in (IF password = NonePw /\ envpw = NonePw THEN Typable ELSE {EmptyPw}) :
             \E d \in {decrypt_keyfile_data(b, password, coldkey_name, envpw, typed)} :
               /\ call' = [fn |-> "decrypt_data", data |-> b, password |-> password,
                           other |-> d.used, err |-> d.err, msg |-> d.msg, out |-> d.data,
                           flags |-> <<Has(d.trace, "env"), Has(d.trace, "prompt_unlock")>>]
               /\ UNCHANGED <<file, dirExists, environ, lastOp, pre, lastSet, mock,
                              writer, reader>>

\* validate_password(password), the retype prompt answered with `retyped`
Validate ==
    /\ call = NoCall
    /\ \E password \in Typable \cup {NonePw}, retyped \in Typable :
           \E v \in {validate_password(password, retyped)} :
               /\ call' = [NoCall EXCEPT !.fn = "validate", !.password = password,
                                         !.other = retyped, !.flags = <<v.valid, v.asked>>]
               /\ UNCHANGED <<file, dirExists, environ, lastOp, pre, lastSet, mock,
                              writer, reader>>

\* the getpass answers scripted for one run of ask_password_to_encrypt
AskSeqs == UNION {[1..n -> Typable] : n \in 0..MaxPrompts}

\* ask_password_to_encrypt() reading its answers from a script
AskPassword ==
    /\ call = NoCall
    /\ \E typed \in AskSeqs :
           \E r \in {ask_password_to_encrypt(typed)} :
               /\ call' = [NoCall EXCEPT !.fn = "ask", !.data = typed, !.password = r.password,
                                         !.other = r.prompts, !.flags = <<r.done>>]
               /\ UNCHANGED <<file, dirExists, environ, lastOp, pre, lastSet, mock,
                              writer, reader>>

\* the records handed to the decoder: each of the three fields a keypair can be
\* rebuilt from is null or names an identity of its own, with or without the
\* public-key fields
DecodeRecords ==
    {[accountId |-> pk, publicKey |-> pk, secretPhrase |-> phrase, secretSeed |-> seed,
      ss58Address |-> address] :
        pk \in {None, HexString(PublicBase + 1)},
        phrase \in {None, MnemonicBase + NumIds + 1},
        seed \in {None} \cup {HexString(SeedBase + i) : i \in Ids},
        address \in {None, AddressBase + NumIds + 2}}

\* bytes that are no record: a byte that is not text, the JSON text null (JSON,
\* but no mapping), a raw public key, 0x followed by something that is no public
\* key ("0xz"), and plain text
DecodeTexts ==
    {<<InvalidByte>>, <<110, 117, 108, 108>>, HexPrefix \o <<PublicBase + 1>>,
     HexPrefix \o <<122>>, <<101, 110, 99>>}

DecodeInputs == {JsonDumpsDict(d) : d \in DecodeRecords} \cup DecodeTexts

\* deserialize_keypair_from_keyfile_data(keyfile_data)
Decode ==
    /\ call = NoCall
    /\ \E data \in DecodeInputs :
           \E k \in {deserialize_keypair_from_keyfile_data(data)} :
               /\ call' = [NoCall EXCEPT !.fn = "decode", !.data = data,
                                         !.err = k.err,
                                         !.msg = IF k.err = "KeyFileError"
                                                 THEN "could not be created" ELSE "",
                                         !.out = IF k.err = "ok" THEN <<>>
                                                 ELSE KeyFileErrorContent(data),
                                         !.flags = <<k.keypair>>]
               /\ UNCHANGED <<file, dirExists, environ, lastOp, pre, lastSet, mock,
                              writer, reader>>

\* serialized_keypair_to_keyfile_data(keypair)
Encode ==
    /\ call = NoCall
    /\ \E keypair \in Keypairs :
           /\ call' = [NoCall EXCEPT !.fn = "encode",
                                     !.out = serialized_keypair_to_keyfile_data(keypair),
                                     !.flags = <<keypair>>]
           /\ UNCHANGED <<file, dirExists, environ, lastOp, pre, lastSet, mock,
                          writer, reader>>

\* the names a lookup is made for: w, and PW_W, which overlaps the prefix
ColdkeyNames == {KeyfileName, <<80, 87, 95, 87>>}

\* the variable names of an environment: BT_COLD_PW_W, bt_cold_pw_w,
\* BT_COLD_PW_XW and BT_COLD_PW_V
EnvNames == {PwPrefix \o <<87>>, EnvNameLower, PwPrefix \o <<88, 87>>, EnvNameOther}

\* os.environ: at most MaxEnv variables, no name twice
Environs ==
    {e \in SUBSET [name : EnvNames, value : Passwords] :
        /\ Cardinality(e) <= MaxEnv
        /\ \A v \in e, w \in e : v.name = w.name => v = w}

\* get_coldkey_password_from_environment(coldkey_name)
EnvLookup ==
    /\ call = NoCall
    /\ \E env \in Environs, coldkey_name \in ColdkeyNames :
           \E password \in get_coldkey_password_from_environment(coldkey_name, env) :
               /\ call' = [NoCall EXCEPT !.fn = "env", !.data = coldkey_name,
                                         !.password = password, !.flags = <<env>>]
               /\ UNCHANGED <<file, dirExists, environ, lastOp, pre, lastSet, mock,
                              writer, reader>>

\* what may be typed at the overwrite question: y, n, Y, nothing, yes
WriteAnswers == Answers \cup {"", "yes"}

\* what _write_keyfile_data_to_file may find at the path: nothing, a file the
\* owner may write, a file the owner may only read
WriteFiles ==
    {NoFile} \cup {[exists |-> TRUE, data |-> <<101, 110, 99>>, mode |-> mode] :
                       mode \in {S_IRUSR + S_IWUSR, S_IRUSR}}

\* _write_keyfile_data_to_file(keyfile_data, overwrite) on a path in a given state
Write ==
    /\ call = NoCall
    /\ \E f \in WriteFiles, keypair \in Keypairs, overwrite \in BOOLEAN,
          answer \in WriteAnswers, createMode \in CreateModes :
           \E r \in {write_keyfile_data_to_file(
                         f, serialized_keypair_to_keyfile_data(keypair), overwrite,
                         answer, createMode)} :
               /\ call' = [NoCall EXCEPT !.fn = "write",
                                         !.data = serialized_keypair_to_keyfile_data(keypair),
                                         !.err = r.err, !.msg = r.msg,
                                         !.flags = <<f, overwrite, answer, r.trace, r.file>>]
               /\ UNCHANGED <<file, dirExists, environ, lastOp, pre, lastSet, mock,
                              writer, reader>>

NextPure ==
    \/ Classify
    \/ RoundTrip
    \/ DecryptData
    \/ Validate
    \/ AskPassword
    \/ Decode
    \/ Encode
    \/ EnvLookup
    \/ Write

SpecPure == Init /\ [][NextPure]_vars

---------------------------------------------------------------------------
(* Mockkeyfile: the in-memory keyfile *)

\* faulty variant: a keypair stored with encrypt = True is not kept
Mock_set_keypair_sealed(m, keypair, enc, overwrite, password) ==
    [mock_keypair |-> IF enc THEN NoKeypair ELSE keypair, mock_data |-> None]

\* the encrypt, overwrite and password arguments are ignored
Mock_set_keypair(m, keypair, enc, overwrite, password) ==
    [mock_keypair |-> keypair, mock_data |-> None]

Mock_get_keypair(m, password) == m.mock_keypair

Mock_exists_on_device(m) == TRUE

Mock_is_readable(m) == TRUE

Mock_is_writable(m) == TRUE

Mock_is_encrypted(m) == FALSE

\* raise ValueError("Cannot encrypt a Mockkeyfile")
Mock_encrypt(m, password) == [err |-> "ValueError", mock |-> m]

\* pass
Mock_decrypt(m, password) == [err |-> "ok", mock |-> m]

MockSetKeypair ==
    \E keypair \in Keypairs, enc \in BOOLEAN, overwrite \in BOOLEAN,
       password \in PasswordArgs :
        /\ mock' = Mock_set_keypair(mock, keypair, enc, overwrite, password)
        /\ lastOp' = [NoOp EXCEPT !.name = "set_keypair", !.encrypt = enc,
                                  !.overwrite = overwrite, !.password = password]
        /\ lastSet' = keypair
        /\ UNCHANGED <<file, dirExists, environ, pre, call, writer, reader>>

MockGetKeypair ==
    \E password \in PasswordArgs :
        /\ lastOp' = [NoOp EXCEPT !.name = "get_keypair", !.password = password,
                                  !.ret = Mock_get_keypair(mock, password)]
        /\ UNCHANGED <<file, dirExists, environ, pre, lastSet, call, mock,
                       writer, reader>>

MockEncrypt ==
    \E password \in PasswordArgs :
      \E r \in {Mock_encrypt(mock, password)} :
        /\ mock' = r.mock
        /\ lastOp' = [NoOp EXCEPT !.name = "encrypt", !.password = password,
                                  !.outcome = r.err]
        /\ UNCHANGED <<file, dirExists, environ, pre, lastSet, call, writer, reader>>

MockDecrypt ==
    \E password \in PasswordArgs :
      \E r \in {Mock_decrypt(mock, password)} :
        /\ mock' = r.mock
        /\ lastOp' = [NoOp EXCEPT !.name = "decrypt", !.password = password,
                                  !.outcome = r.err]
        /\ UNCHANGED <<file, dirExists, environ, pre, lastSet, call, writer, reader>>

NextMock ==
    \/ MockSetKeypair
    \/ MockGetKeypair
    \/ MockEncrypt
    \/ MockDecrypt

SpecMock == Init /\ [][NextMock]_vars

---------------------------------------------------------------------------
(* Properties of the Mockkeyfile, checked under SpecMock *)

\* C22: a Mockkeyfile always reports exists_on_device, is_readable and
\* is_writable true and is_encrypted false, also after set_keypair(encrypt =
\* True); encrypt always raises and leaves the stored keypair as it was; and
\* get_keypair returns the keypair of the most recent set_keypair.
C22_MockKeystore ==
    /\ Mock_exists_on_device(mock)
    /\ Mock_is_readable(mock)
    /\ Mock_is_writable(mock)
    /\ ~Mock_is_encrypted(mock)
    /\ lastOp.name = "encrypt" => lastOp.outcome # "ok"
    /\ lastSet # NoKeypair => mock.mock_keypair = lastSet
    /\ (lastOp.name = "get_keypair" /\ lastSet # NoKeypair) => lastOp.ret = lastSet

\* a keypair was stored with encrypt = True, encrypt() was tried, and the keypair
\* is still there
C22_Witness ==
    /\ lastOp.name = "encrypt"
    /\ lastOp.outcome = "ValueError"
    /\ lastSet \in Keypairs
    /\ mock.mock_keypair = lastSet
    /\ ~Mock_is_encrypted(mock)

---------------------------------------------------------------------------
(* Properties of the module-level functions, checked under SpecPure *)

HasPrefix(b, marker) ==
    Len(b) >= Len(marker) /\ \A i \in 1..Len(marker) : b[i] = marker[i]

\* C3: decrypting with a password other than the one a blob was encrypted under
\* raises KeyFileError "Invalid password" and returns no data, for a vault blob
\* and for a legacy blob.
C3_WrongPassword ==
    (call.fn = "roundtrip" /\ call.password # call.other)
        => /\ call.err = "KeyFileError"
           /\ call.msg = "Invalid password"
           /\ call.out = <<>>

C3_Witness ==
    /\ call.fn = "roundtrip"
    /\ call.password # call.other
    /\ ~call.flags[1]
    /\ call.data # <<>>
    /\ call.err = "KeyFileError"

\* C4: decrypt_keyfile_data(encrypt_keyfile_data(p, w), w) returns p, for every
\* plaintext p and password w.
C4_EncryptDecryptInverse ==
    (call.fn = "roundtrip" /\ call.flags[1] /\ call.password = call.other)
        => call.err = "ok" /\ call.out = call.data

\* C10: a byte string is classified ansible iff its first 14 bytes are the vault
\* marker, legacy iff its first 6 bytes are the legacy marker, never both, and
\* encrypted iff one of the two; a string shorter than a marker is neither.
C10_PrefixClassification ==
    call.fn = "classify"
        => /\ call.flags[1] = HasPrefix(call.data, VaultMagic)
           /\ call.flags[2] = HasPrefix(call.data, LegacyMagic)
           /\ ~(call.flags[1] /\ call.flags[2])
           /\ call.flags[3] = (call.flags[1] \/ call.flags[2])
           /\ Len(call.data) < 6 => ~call.flags[3]

C10_Witness ==
    /\ call.fn = "classify"
    /\ Len(call.data) > 14
    /\ call.flags[1]
    /\ ~call.flags[2]
    /\ call.flags[3]

\* the envelope is malformed whatever the password
MalformedEnvelope(b) ==
    \A w \in Typable : VaultDecrypt(b, w).err = "AnsibleVaultFormatError"

\* C11: decrypt_keyfile_data on bytes that carry neither marker raises
\* KeyFileError reporting corrupt data and returns nothing, whatever the password
\* and wherever the password comes from.
C11_PlaintextIsCorrupt ==
    (call.fn = "decrypt_data" /\ ~HasPrefix(call.data, VaultMagic)
        /\ ~HasPrefix(call.data, LegacyMagic))
        => /\ call.err = "KeyFileError"
           /\ call.msg = "corrupt"
           /\ call.out = <<>>

C11_Witness ==
    /\ call.fn = "decrypt_data"
    /\ JsonLoads(call.data).ok
    /\ call.password \in Passwords
    /\ call.err = "KeyFileError"
    /\ call.msg = "corrupt"

\* C12: a failed decryption of vault-marked bytes is reported as KeyFileError
\* "Invalid password" when the password does not open a well-formed envelope, and
\* as KeyFileError "corrupt" when the envelope is malformed whatever the password.
C12_VaultFailureCauses ==
    (call.fn = "decrypt_data" /\ HasPrefix(call.data, VaultMagic) /\ call.err # "ok")
        => /\ call.err = "KeyFileError"
           /\ call.msg = (IF MalformedEnvelope(call.data) THEN "corrupt"
                          ELSE "Invalid password")

\* C13: validate_password returns False for None, for the empty string, for a
\* password the policy faults and for a retyped password that differs; it returns
\* True exactly when the password is non-empty, passes the policy and is retyped
\* identically; the retype prompt is issued only after the policy passed.
C13_PasswordPolicy ==
    call.fn = "validate"
        => /\ call.flags[1] = (/\ call.password # NonePw
                               /\ call.password # EmptyPw
                               /\ call.password # WeakPassword
                               /\ call.other = call.password)
           /\ call.flags[2] = (call.password \notin {NonePw, EmptyPw, WeakPassword})

C13_Witness ==
    /\ call.fn = "validate"
    /\ call.password = NumPw
    /\ call.other \notin {call.password, EmptyPw}
    /\ ~call.flags[1]
    /\ call.flags[2]

\* one run of the loop, shifted by the prompts an earlier iteration consumed
Shifted(r, n) == [r EXCEPT !.prompts = @ + n]

\* C14: ask_password_to_encrypt returns only a password that passed the policy and
\* was retyped identically in the iteration that ended the loop; an empty or weak
\* entry costs one prompt and the loop goes on, a strong entry retyped differently
\* costs two and the loop goes on, a strong entry retyped identically ends it at
\* once; while no such pair has been entered every answer is consumed and the
\* loop is still prompting; the answers weak, weak, strong, strong return strong.
C14_AskUntilValid ==
    call.fn = "ask"
        => LET t == call.data
               r == [done |-> call.flags[1], password |-> call.password,
                     prompts |-> call.other]
           IN  /\ r.done
                    => /\ r.prompts >= 2 /\ r.prompts <= Len(t)
                       /\ t[r.prompts - 1] = r.password
                       /\ t[r.prompts] = r.password
                       /\ r.password \notin {NonePw, EmptyPw, WeakPassword}
               /\ ~r.done => r.prompts = Len(t) /\ r.password = NonePw
               /\ (t # <<>> /\ Head(t) \in {EmptyPw, WeakPassword})
                    => r = Shifted(ask_password_to_encrypt(Tail(t)), 1)
               /\ (Len(t) >= 2 /\ Head(t) \notin {EmptyPw, WeakPassword} /\ t[2] # t[1])
                    => r = Shifted(ask_password_to_encrypt(Drop(t, 2)), 2)
               /\ (Len(t) >= 2 /\ Head(t) \notin {EmptyPw, WeakPassword} /\ t[2] = t[1])
                    => r = [done |-> TRUE, password |-> t[1], prompts |-> 2]
               /\ t = <<WeakPassword, WeakPassword, NumPw, NumPw>>
                    => r = [done |-> TRUE, password |-> NumPw, prompts |-> 4]

C14_Witness ==
    /\ call.fn = "ask"
    /\ call.data = <<WeakPassword, WeakPassword, NumPw, NumPw>>
    /\ call.flags[1]
    /\ call.password = NumPw
    /\ call.other = 4

\* C15: decoding a record builds the keypair from secretSeed when it is not
\* null, whatever the other fields hold; else from secretPhrase when it is not
\* null; else, from ss58Address when it is not null, a keypair with that address
\* and neither private key, seed nor mnemonic.
C15_DecodePriority ==
    call.fn = "decode"
        => LET d == JsonLoads(call.data).dict
               k == call.flags[1]
           IN  /\ d.secretSeed # None
                    => /\ call.err = "ok"
                       /\ k = create_from_seed(FromHexString(d.secretSeed))
               /\ (d.secretSeed = None /\ d.secretPhrase # None)
                    => /\ call.err = "ok"
                       /\ k = create_from_mnemonic(d.secretPhrase)
               /\ (d.secretSeed = None /\ d.secretPhrase = None /\ d.ss58Address # None)
                    => /\ call.err = "ok"
                       /\ k.ss58_address = d.ss58Address
                       /\ k.private_key = None
                       /\ k.seed_hex = None
                       /\ k.mnemonic = None

C15_Witness ==
    /\ call.fn = "decode"
    /\ JsonLoads(call.data).dict.secretSeed # None
    /\ JsonLoads(call.data).dict.secretPhrase # None
    /\ JsonLoads(call.data).dict.ss58Address # None
    /\ call.flags[1].seed_hex = FromHexString(JsonLoads(call.data).dict.secretSeed)
    /\ call.flags[1].mnemonic = None
    /\ call.flags[1].ss58_address # JsonLoads(call.data).dict.ss58Address

\* C16: decoding a record whose secretSeed, secretPhrase and ss58Address are all
\* null raises KeyFileError with the record in its message, also when publicKey
\* and accountId are set.
C16_NoFieldsIsCorrupt ==
    (call.fn = "decode" /\ JsonLoads(call.data).ok
        /\ JsonLoads(call.data).dict.secretSeed = None
        /\ JsonLoads(call.data).dict.secretPhrase = None
        /\ JsonLoads(call.data).dict.ss58Address = None)
        => /\ call.err = "KeyFileError"
           /\ call.msg = "could not be created"
           /\ call.out = SubSeq(call.data, 2, 6)
           /\ call.flags[1] = NoKeypair

C16_Witness ==
    /\ call.fn = "decode"
    /\ JsonLoads(call.data).dict.publicKey # None
    /\ JsonLoads(call.data).dict.accountId # None
    /\ call.err = "KeyFileError"
    /\ call.out = SubSeq(call.data, 2, 6)

\* C18: get_coldkey_password_from_environment(name) returns the value of a
\* variable whose upper-cased name is BT_COLD_PW_ followed by the upper-cased
\* name, and None when the environment has no such variable; a variable with more
\* between the prefix and the name, or one in which the two overlap, supplies
\* nothing.
C18_EnvExactName ==
    call.fn = "env"
        => LET exact == {v \in call.flags[1] :
                            Upper(v.name) = PwPrefix \o Upper(call.data)}
           IN  IF exact = {} THEN call.password = NonePw
               ELSE call.password \in {v.value : v \in exact}

\* C19: a blob the legacy scheme made of plaintext p under password w is
\* decrypted by decrypt_keyfile_data(blob, w) to exactly p, without a prompt.
C19_LegacyDecrypt ==
    (call.fn = "roundtrip" /\ ~call.flags[1] /\ call.password = call.other)
        => /\ call.err = "ok"
           /\ call.out = call.data
           /\ ~call.flags[2]

C19_Witness ==
    /\ call.fn = "roundtrip"
    /\ ~call.flags[1]
    /\ call.password = call.other
    /\ call.data = <<101, 110, 99>>
    /\ call.out = <<101, 110, 99>>
    /\ call.err = "ok"

\* C20: encoding a keypair, an address-only one included, does not fail and
\* gives a record with exactly the five fields accountId, publicKey, secretPhrase,
\* secretSeed and ss58Address, each null or a value: the public-key hex string
\* under accountId and under publicKey, the mnemonic, the seed hex string, the
\* address.
C20_EncodeFiveFields ==
    call.fn = "encode"
        => LET keypair == call.flags[1]
               parsed == JsonLoads(call.out)
           IN  /\ call.err = "ok"
               /\ parsed.ok
               /\ DOMAIN parsed.dict
                    = {"accountId", "publicKey", "secretPhrase", "secretSeed", "ss58Address"}
               /\ parsed.dict.accountId = HexString(keypair.public_key)
               /\ parsed.dict.publicKey = HexString(keypair.public_key)
               /\ parsed.dict.secretPhrase = keypair.mnemonic
               /\ parsed.dict.secretSeed = HexString(keypair.seed_hex)
               /\ parsed.dict.ss58Address = keypair.ss58_address

C20_Witness ==
    /\ call.fn = "encode"
    /\ call.flags[1].private_key = None
    /\ JsonLoads(call.out).ok
    /\ JsonLoads(call.out).dict.secretSeed = None
    /\ JsonLoads(call.out).dict.secretPhrase = None
    /\ JsonLoads(call.out).dict.ss58Address # None

\* C20 as stated: the five fields of the encoded record are named address,
\* publicKey, secretPhrase, secretSeed and ss58Address.
C20_EncodeNamedAddress ==
    call.fn = "encode"
        => /\ call.err = "ok"
           /\ JsonLoads(call.out).ok
           /\ DOMAIN JsonLoads(call.out).dict
                = {"address", "publicKey", "secretPhrase", "secretSeed", "ss58Address"}

---------------------------------------------------------------------------
(* Two processes on one path: _write_keyfile_data_to_file step by step, and a *)
(* reader that may run between any two of its steps                           *)

\* faulty variant: the bytes are prepared aside and the file is left as it is
\* until they are complete
OpenAside(f, createMode) ==
    [exists |-> f.exists, data |-> f.data, mode |-> f.mode]

\* open(self.path, "wb"): the file is created or truncated
OpenForWriting(f, createMode) ==
    [exists |-> TRUE, data |-> <<>>, mode |-> IF f.exists THEN f.mode ELSE createMode]

\* the calls a writer makes: what each would leave in the file
WriterCalls(f, createMode) ==
    {[name |-> "set_keypair",
      r |-> set_keypair(f, k, FALSE, TRUE, NonePw, NonePw, 1, "", createMode)] :
         k \in Keypairs}
      \cup {[name |-> "encrypt", r |-> encrypt(f, p, NonePw, 1)] : p \in Passwords}
      \cup {[name |-> "decrypt", r |-> decrypt(f, p, NonePw, EmptyPw)] : p \in Passwords}

\* the writer has its bytes and opens the file
WriterOpen ==
    /\ writer.pc = "idle"
    /\ \E createMode \in (IF file.exists THEN {0} ELSE CreateModes) :
         \E c \in WriterCalls(file, createMode) :
            /\ c.r.outcome = "ok"
            /\ file' = OpenForWriting(file, createMode)
            /\ writer' = [pc |-> "opened", name |-> c.name,
                          before |-> [exists |-> file.exists, data |-> file.data],
                          keyfile_data |-> c.r.file.data]
            /\ reader' = NoReader
            /\ dirExists' = TRUE
            /\ UNCHANGED <<environ, lastOp, pre, lastSet, call, mock>>

\* keyfile.write(keyfile_data) and the close that ends the with block
WriterWrite ==
    /\ writer.pc = "opened"
    /\ file' = [file EXCEPT !.data = writer.keyfile_data]
    /\ writer' = [writer EXCEPT !.pc = "written"]
    /\ UNCHANGED <<dirExists, environ, lastOp, pre, lastSet, call, mock, reader>>

\* os.chmod(self.path, stat.S_IRUSR | stat.S_IWUSR)
WriterChmod ==
    /\ writer.pc = "written"
    /\ file' = [file EXCEPT !.mode = ChmodOwnerOnly(file.mode)]
    /\ writer' = [writer EXCEPT !.pc = "idle"]
    /\ UNCHANGED <<dirExists, environ, lastOp, pre, lastSet, call, mock, reader>>

\* another process calls get_keypair
ReaderGetKeypair ==
    \E password \in Passwords :
      \E r \in {get_keypair(file, password, NonePw, EmptyPw)} :
        /\ reader' = [op |-> "get_keypair", at |-> writer.pc,
                      seen |-> [exists |-> exists_on_device(file),
                                data |-> read_keyfile_data_from_file(file).data],
                      outcome |-> r.outcome, encrypted |-> FALSE]
        /\ UNCHANGED <<file, dirExists, environ, lastOp, pre, lastSet, call, mock, writer>>

\* another process calls is_encrypted
ReaderIsEncrypted ==
    /\ reader' = [op |-> "is_encrypted", at |-> writer.pc,
                  seen |-> [exists |-> exists_on_device(file),
                            data |-> read_keyfile_data_from_file(file).data],
                  outcome |-> "ok", encrypted |-> is_encrypted(file)]
    /\ UNCHANGED <<file, dirExists, environ, lastOp, pre, lastSet, call, mock, writer>>

NextRace ==
    \/ WriterOpen
    \/ WriterWrite
    \/ WriterChmod
    \/ ReaderGetKeypair
    \/ ReaderIsEncrypted

SpecRace == Init /\ [][NextRace]_vars

---------------------------------------------------------------------------
(* Properties of unsynchronised access, checked under SpecRace *)

\* C30: a reader running beside a writer on the same path observes something
\* that is neither what the file held before the write nor what it holds after
\* it exactly when its read falls between the writer's open and its write: it
\* then finds an empty file, for which get_keypair fails and is_encrypted is
\* false; nothing keeps the reader out of that window.
C30_TornRead ==
    reader.op # "none"
        => /\ (reader.seen \notin {writer.before,
                                   [exists |-> TRUE, data |-> writer.keyfile_data]})
                <=> reader.at = "opened"
           /\ reader.at = "opened"
                => /\ reader.seen = [exists |-> TRUE, data |-> <<>>]
                   /\ reader.op = "get_keypair" => reader.outcome = "KeyFileError"
                   /\ reader.op = "is_encrypted" => ~reader.encrypted

\* while decrypt() was rewriting an encrypted file, get_keypair found it empty
C30_Witness ==
    /\ writer.name = "decrypt"
    /\ keyfile_data_is_encrypted(writer.before.data)
    /\ writer.keyfile_data # <<>>
    /\ reader.op = "get_keypair"
    /\ reader.at = "opened"
    /\ reader.seen.data = <<>>
    /\ reader.outcome = "KeyFileError"

---------------------------------------------------------------------------
(* Properties of the keyfile object, checked under Spec *)

Wrote(op) == op.name \in {"set_keypair", "encrypt", "decrypt"} /\ op.outcome = "ok"

Unlocking(op) == op.name \in {"get_keypair", "decrypt"}

\* the values the environment lookup may give the keyfile
EnvPasswords == get_coldkey_password_from_environment(KeyfileName, environ)

\* C1: set_keypair with overwrite = False on an existing file, answered with
\* anything but y, raises KeyFileError and leaves the file's bytes and permission
\* bits as they were.
C1_OverwriteGate ==
    (lastOp.name = "set_keypair" /\ pre.exists /\ ~lastOp.overwrite /\ lastOp.answer # "y")
        => /\ lastOp.outcome = "KeyFileError"
           /\ lastOp.sameData
           /\ lastOp.sameMode

C1_Witness ==
    /\ lastOp.name = "set_keypair"
    /\ pre.exists
    /\ ~lastOp.overwrite
    /\ lastOp.answer = "n"
    /\ lastOp.outcome = "KeyFileError"
    /\ lastOp.sameData

\* C2: after every successful set_keypair, encrypt or decrypt the file exists and
\* its permission bits are exactly owner read + owner write (0o600), whatever they
\* were before.
C2_PermissionHardening ==
    Wrote(lastOp) => file.exists /\ file.mode = 384

C2_Witness ==
    /\ lastOp.name = "encrypt"
    /\ lastOp.outcome = "ok"
    /\ pre.mode = 420
    /\ file.mode = 384

\* C5: while the file holds what a set_keypair stored (through any decrypts and
\* encrypts since), a get_keypair that can open the file succeeds, and every
\* successful get_keypair returns the stored keypair's address and public key, and
\* its private key and seed when it has a seed.
C5_IdentityPreserved ==
    (lastOp.name = "get_keypair" /\ lastSet # NoKeypair)
        => /\ (is_readable(file)
                 /\ (is_encrypted(file) => VaultDecrypt(file.data, lastOp.used).err = "ok"))
                => lastOp.outcome = "ok"
           /\ lastOp.outcome = "ok"
                => /\ lastOp.ret.ss58_address = lastSet.ss58_address
                   /\ lastOp.ret.public_key = lastSet.public_key
                   /\ lastSet.seed_hex # None
                        => /\ lastOp.ret.private_key = lastSet.private_key
                           /\ lastOp.ret.seed_hex = lastSet.seed_hex

C5_Witness ==
    /\ lastOp.name = "get_keypair"
    /\ lastOp.outcome = "ok"
    /\ is_encrypted(file)
    /\ lastSet.seed_hex # None
    /\ lastOp.ret.private_key = lastSet.private_key

\* C6: a successful set_keypair(encrypt = True) or encrypt() leaves is_encrypted()
\* true, a successful decrypt() or set_keypair(encrypt = False) leaves it false,
\* and it is false whenever the file is absent or unreadable.
C6_EncryptionToggles ==
    /\ (lastOp.name = "set_keypair" /\ lastOp.outcome = "ok")
            => is_encrypted(file) = lastOp.encrypt
    /\ (lastOp.name = "encrypt" /\ lastOp.outcome = "ok") => is_encrypted(file)
    /\ (lastOp.name = "decrypt" /\ lastOp.outcome = "ok") => ~is_encrypted(file)
    /\ (~file.exists \/ ~Readable(file.mode)) => ~is_encrypted(file)

C6_Witness ==
    /\ lastOp.name = "decrypt"
    /\ lastOp.outcome = "ok"
    /\ pre.encrypted
    /\ ~is_encrypted(file)

\* C7: unlocking in get_keypair and decrypt: an explicit password is used without
\* consulting the environment or prompting; without one, once the encrypted file
\* has been read, a password the environment yields for the keyfile's name is used
\* without prompting; only when it yields none is the prompt issued, after the
\* lookup; a file that is not encrypted has no password resolved.
C7_PasswordPriority ==
    Unlocking(lastOp)
        => /\ lastOp.password # NonePw
                => /\ ~Has(lastOp.trace, "env")
                   /\ ~Has(lastOp.trace, "prompt_unlock")
                   /\ (pre.encrypted /\ Has(lastOp.trace, "read"))
                        => lastOp.used = lastOp.password
           /\ (lastOp.password = NonePw /\ pre.encrypted /\ Has(lastOp.trace, "read")
                 /\ EnvPasswords # {NonePw})
                => /\ Has(lastOp.trace, "env")
                   /\ ~Has(lastOp.trace, "prompt_unlock")
                   /\ lastOp.used \in EnvPasswords
           /\ (lastOp.password = NonePw /\ pre.encrypted /\ Has(lastOp.trace, "read")
                 /\ EnvPasswords = {NonePw})
                => /\ Has(lastOp.trace, "env")
                   /\ Has(lastOp.trace, "prompt_unlock")
                   /\ Pos(lastOp.trace, "env") < Pos(lastOp.trace, "prompt_unlock")
           /\ ~pre.encrypted
                => /\ ~Has(lastOp.trace, "env")
                   /\ ~Has(lastOp.trace, "prompt_unlock")
                   /\ lastOp.used = NonePw

C7_Witness ==
    /\ lastOp.name = "get_keypair"
    /\ lastOp.password = NonePw
    /\ pre.encrypted
    /\ EnvPasswords # {NonePw}
    /\ lastOp.used \in EnvPasswords
    /\ lastOp.outcome = "ok"

\* C8: get_keypair on an absent or unreadable file raises KeyFileError (does not
\* exist / is not readable) having taken no step: nothing read, no password
\* resolved, no decryption, the file untouched.
C8_GetKeypairFailsFirst ==
    (lastOp.name = "get_keypair" /\ (~pre.exists \/ ~Readable(pre.mode)))
        => /\ lastOp.outcome = "KeyFileError"
           /\ lastOp.msg = (IF ~pre.exists THEN "does not exist" ELSE "is not readable")
           /\ lastOp.trace = <<>>
           /\ lastOp.used = NonePw
           /\ lastOp.sameData
           /\ lastOp.sameMode

C8_Witness ==
    /\ lastOp.name = "get_keypair"
    /\ pre.exists
    /\ ~Readable(pre.mode)
    /\ keyfile_data_is_encrypted(file.data)
    /\ lastOp.msg = "is not readable"

\* C9: encrypt() and decrypt() on a file that is absent, unreadable or unwritable
\* raise KeyFileError, reporting the first failed check in the order exists,
\* readable, writable, having taken no step: nothing read, no password resolved,
\* the file untouched.
C9_PreconditionsUpFront ==
    (lastOp.name \in {"encrypt", "decrypt"}
        /\ (~pre.exists \/ ~Readable(pre.mode) \/ ~Writable(pre.mode)))
        => /\ lastOp.outcome = "KeyFileError"
           /\ lastOp.msg = (IF ~pre.exists THEN "does not exist"
                            ELSE IF ~Readable(pre.mode) THEN "is not readable"
                            ELSE "is not writable")
           /\ lastOp.trace = <<>>
           /\ lastOp.used = NonePw
           /\ lastOp.sameData
           /\ lastOp.sameMode

C9_Witness ==
    /\ lastOp.name = "decrypt"
    /\ pre.exists
    /\ Readable(pre.mode)
    /\ ~Writable(pre.mode)
    /\ keyfile_data_is_encrypted(file.data)
    /\ lastOp.password = NonePw
    /\ lastOp.msg = "is not writable"

\* a raw 0x-prefixed public key, as the legacy tools left it in the file
IsRawKey(data) == Len(data) = 3 /\ Take(data, 2) = HexPrefix /\ IsPublicKey(data[3])

\* the record of public key pk alone: its hex string twice, no mnemonic, no seed,
\* the address derived from it
AddressRecord(pk) ==
    <<LBrace, StringBase + pk, StringBase + pk, None, None, ss58_encode(pk), RBrace>>

\* C17: a file holding a raw 0x-prefixed public key decodes to a keypair with the
\* derived address and that public key and neither private key, seed nor
\* mnemonic; encrypt(w) stores the vault envelope, under w, of the record that
\* has the key's hex string as accountId and publicKey, null secretPhrase and
\* secretSeed and the derived ss58Address; decrypt(w) of that envelope leaves
\* exactly this record in the file; and get_keypair on the record returns the
\* address and the public key.
C17_LegacyRawAddress ==
    [][(lastOp'.name \in {"get_keypair", "encrypt", "decrypt"} /\ file.exists)
        => /\ (lastOp'.name = "get_keypair" /\ IsRawKey(file.data) /\ Readable(file.mode))
                => /\ lastOp'.outcome = "ok"
                   /\ lastOp'.ret = [public_key |-> file.data[3], private_key |-> None,
                                     mnemonic |-> None, seed_hex |-> None,
                                     ss58_address |-> ss58_encode(file.data[3])]
           /\ (lastOp'.name = "encrypt" /\ lastOp'.outcome = "ok" /\ IsRawKey(file.data))
                => /\ lastOp'.used \in Passwords
                   /\ \E salt \in Salts :
                         file'.data = VaultEncrypt(AddressRecord(file.data[3]),
                                                   lastOp'.used, salt)
           /\ (lastOp'.name = "decrypt" /\ lastOp'.outcome = "ok"
                  /\ HasPrefix(file.data, VaultMagic)
                  /\ Drop(file.data, 16) = AddressRecord(PublicBase + 1))
                => file'.data = AddressRecord(PublicBase + 1)
           /\ (lastOp'.name = "get_keypair" /\ lastOp'.outcome = "ok"
                  /\ file.data = AddressRecord(PublicBase + 1))
                => /\ lastOp'.ret.ss58_address = ss58_encode(PublicBase + 1)
                   /\ lastOp'.ret.public_key = PublicBase + 1
                   /\ lastOp'.ret.private_key = None
      ]_vars

\* the file came from outside as a raw key, was encrypted and has been decrypted
C17_Witness ==
    /\ lastOp.name = "decrypt"
    /\ lastOp.outcome = "ok"
    /\ pre.encrypted
    /\ lastSet = NoKeypair
    /\ file.data = AddressRecord(PublicBase + 1)

\* C21: set_keypair on an existing file that is not writable, with overwrite =
\* True or the overwrite confirmed with y, raises KeyFileError and no other kind
\* of error, and leaves the file's bytes and permission bits as they were.
C21_NonWritableIsKeyFileError ==
    (lastOp.name = "set_keypair" /\ pre.exists /\ ~Writable(pre.mode)
        /\ (lastOp.overwrite \/ lastOp.answer = "y"))
        => /\ lastOp.outcome = "KeyFileError"
           /\ lastOp.sameData
           /\ lastOp.sameMode

\* C23: the queries exists_on_device, is_readable, is_writable and is_encrypted,
\* the data accessors and get_keypair, whether it succeeds or fails and whatever
\* the password, leave the file's existence, bytes and permission bits as they
\* were.
C23_ReadOnlyOperations ==
    [][lastOp'.name \in {"query", "get_keypair"}
          => /\ file'.exists = file.exists
             /\ file'.data = file.data
             /\ file'.mode = file.mode]_vars

\* get_keypair has failed on a wrong password and the file is still encrypted
C23_Witness ==
    /\ lastOp.name = "get_keypair"
    /\ pre.encrypted
    /\ lastOp.outcome = "KeyFileError"
    /\ lastOp.msg = "Invalid password"
    /\ lastOp.sameData
    /\ is_encrypted(file)

\* C24: encrypt() on a readable file whose bytes start with the vault or the
\* legacy marker leaves the bytes identical (a legacy file stays legacy), asks for
\* and uses no password, and changes at most the permission bits, to owner read
\* and write; on a writable file it succeeds.
C24_EncryptOnEncrypted ==
    [][(lastOp'.name = "encrypt" /\ file.exists /\ Readable(file.mode)
          /\ (HasPrefix(file.data, VaultMagic) \/ HasPrefix(file.data, LegacyMagic)))
        => /\ file'.exists
           /\ file'.data = file.data
           /\ HasPrefix(file.data, LegacyMagic) => ~HasPrefix(file'.data, VaultMagic)
           /\ ~Has(lastOp'.trace, "prompt_new")
           /\ ~Has(lastOp'.trace, "vault_encrypt")
           /\ lastOp'.used = NonePw
           /\ file'.mode \in {file.mode, S_IRUSR + S_IWUSR}
           /\ Writable(file.mode) => (lastOp'.outcome = "ok"
                                        /\ file'.mode = S_IRUSR + S_IWUSR)]_vars

\* encrypt() without a password has run on a legacy file with bits 0o644
C24_Witness ==
    /\ lastOp.name = "encrypt"
    /\ lastOp.outcome = "ok"
    /\ lastOp.password = NonePw
    /\ pre.encrypted
    /\ pre.mode = 420
    /\ HasPrefix(file.data, LegacyMagic)
    /\ file.mode = 384

\* C25: a successful set_keypair(encrypt = True), and a successful encrypt() of a
\* file that is not encrypted, leave a file that starts with the vault marker;
\* and no call on the keyfile leaves a legacy-format file where there was none.
C25_AlwaysVault ==
    [][/\ (lastOp'.name = "set_keypair" /\ lastOp'.encrypt /\ lastOp'.outcome = "ok")
            => (file'.exists /\ HasPrefix(file'.data, VaultMagic)
                  /\ ~HasPrefix(file'.data, LegacyMagic))
       /\ (lastOp'.name = "encrypt" /\ lastOp'.outcome = "ok"
              /\ ~HasPrefix(file.data, VaultMagic) /\ ~HasPrefix(file.data, LegacyMagic))
            => (file'.exists /\ HasPrefix(file'.data, VaultMagic)
                  /\ ~HasPrefix(file'.data, LegacyMagic))
       /\ (lastOp'.name \in {"set_keypair", "get_keypair", "encrypt", "decrypt", "query"}
              /\ ~(file.exists /\ HasPrefix(file.data, LegacyMagic)))
            => ~(file'.exists /\ HasPrefix(file'.data, LegacyMagic))]_vars

\* encrypt() has sealed a file that held a plain record
C25_Witness ==
    /\ lastOp.name = "encrypt"
    /\ lastOp.outcome = "ok"
    /\ ~pre.encrypted
    /\ Has(lastOp.trace, "vault_encrypt")
    /\ HasPrefix(file.data, VaultMagic)

\* C26: no call on the keyfile deletes the file: if it exists before a
\* set_keypair, get_keypair, encrypt, decrypt or query, it exists after it,
\* whether the call succeeded or failed.
C26_NoDeletion ==
    (lastOp.name \in {"set_keypair", "get_keypair", "encrypt", "decrypt", "query"}
        /\ pre.exists)
        => exists_on_device(file)

\* a decrypt with a wrong password has failed and the file is still there
C26_Witness ==
    /\ lastOp.name = "decrypt"
    /\ lastOp.outcome = "KeyFileError"
    /\ lastOp.msg = "Invalid password"
    /\ pre.exists
    /\ exists_on_device(file)

\* the bytes a call reads from the file, opened with the password it used
Opened(f, used) ==
    IF HasPrefix(f.data, VaultMagic) \/ HasPrefix(f.data, LegacyMagic)
    THEN decrypt_keyfile_data(f.data, used, KeyfileName, NonePw, EmptyPw)
    ELSE [err |-> "ok", msg |-> "", data |-> f.data, trace |-> <<>>, used |-> NonePw]

\* C27: what a call on the keyfile answers and leaves in the file is determined by
\* the file as it is when the call is made and by the password the call used,
\* which comes from its argument, the environment or the prompt; nothing of
\* earlier calls enters, so a call after an external change answers from the new
\* contents.
C27_NothingCached ==
    [][/\ lastOp'.name = "query"
            => \E present \in {file.exists /\ Readable(file.mode)} :
                 lastOp'.seen =
                   [exists |-> file.exists,
                    readable |-> present,
                    writable |-> file.exists /\ Writable(file.mode),
                    encrypted |-> present /\ (HasPrefix(file.data, VaultMagic)
                                                \/ HasPrefix(file.data, LegacyMagic)),
                    data |-> IF present THEN file.data ELSE <<>>]
       /\ lastOp'.name \in {"get_keypair", "decrypt"}
            => /\ lastOp'.password # NonePw => lastOp'.used \in {NonePw, lastOp'.password}
               /\ lastOp'.password = NonePw
                    => lastOp'.used \in EnvPasswords \cup Typable \cup {NonePw}
       /\ (lastOp'.name = "get_keypair" /\ ~(file.exists /\ Readable(file.mode)))
            => lastOp'.outcome = "KeyFileError"
       /\ (lastOp'.name = "get_keypair" /\ file.exists /\ Readable(file.mode))
            => \E o \in {Opened(file, lastOp'.used)} :
                 IF o.err # "ok" THEN lastOp'.outcome = o.err
                 ELSE \E k \in {deserialize_keypair_from_keyfile_data(o.data)} :
                        lastOp'.outcome = k.err /\ lastOp'.ret = k.keypair
       /\ (lastOp'.name = "decrypt" /\ file.exists /\ Readable(file.mode)
              /\ Writable(file.mode))
            => \E o \in {Opened(file, lastOp'.used)} :
                 IF o.err # "ok" THEN lastOp'.outcome = o.err /\ file' = file
                 ELSE \E k \in {deserialize_keypair_from_keyfile_data(o.data)} :
                        IF k.err # "ok" THEN lastOp'.outcome = k.err /\ file' = file
                        ELSE /\ lastOp'.outcome = "ok"
                             /\ file'.data = serialized_keypair_to_keyfile_data(k.keypair)
       /\ (lastOp'.name = "encrypt" /\ file.exists /\ Readable(file.mode)
              /\ Writable(file.mode)
              /\ ~HasPrefix(file.data, VaultMagic) /\ ~HasPrefix(file.data, LegacyMagic))
            => \E k \in {deserialize_keypair_from_keyfile_data(file.data)} :
                 IF k.err # "ok" THEN lastOp'.outcome = k.err /\ file' = file
                 ELSE /\ lastOp'.outcome = "ok"
                      /\ \E salt \in Salts :
                            file'.data =
                              VaultEncrypt(serialized_keypair_to_keyfile_data(k.keypair),
                                           lastOp'.used, salt)]_vars

\* the file was written from outside as a raw public key, and get_keypair answers
\* with the key now in the file
C27_Witness ==
    /\ lastOp.name = "get_keypair"
    /\ lastOp.outcome = "ok"
    /\ lastSet = NoKeypair
    /\ IsRawKey(file.data)
    /\ lastOp.ret = KeypairFromAddress(ss58_encode(file.data[3]))

\* the password does not open the encrypted bytes
WrongPassword(data, password) ==
    \/ HasPrefix(data, VaultMagic) /\ VaultDecrypt(data, password).err = "AnsibleVaultError"
    \/ HasPrefix(data, LegacyMagic)
         /\ FernetDecrypt(LegacyKey(password), data).err = "InvalidToken"

\* C28: one get_keypair or decrypt() looks in the environment at most once, prompts
\* at most once and tries the data at most once; when the password it settled on
\* is wrong it raises KeyFileError "Invalid password" straight after that one
\* attempt, with the file untouched, and an explicit wrong password is not
\* followed by the environment or the prompt.
C28_NoRetry ==
    Unlocking(lastOp)
        => /\ Count(lastOp.trace, "env") <= 1
           /\ Count(lastOp.trace, "prompt_unlock") <= 1
           /\ Count(lastOp.trace, "vault_decrypt") + Count(lastOp.trace, "legacy_decrypt") <= 1
           /\ (pre.encrypted /\ Has(lastOp.trace, "read")
                 /\ WrongPassword(file.data, lastOp.used))
                => lastOp.msg = "Invalid password"
           /\ lastOp.msg = "Invalid password"
                => /\ lastOp.outcome = "KeyFileError"
                   /\ lastOp.ret = NoKeypair
                   /\ lastOp.sameData
                   /\ lastOp.sameMode
                   /\ WrongPassword(file.data, lastOp.used)
                   /\ lastOp.trace[Len(lastOp.trace)] \in {"vault_decrypt", "legacy_decrypt"}
                   /\ lastOp.password # NonePw
                        => /\ lastOp.used = lastOp.password
                           /\ ~Has(lastOp.trace, "env")
                           /\ ~Has(lastOp.trace, "prompt_unlock")
                   /\ (lastOp.password = NonePw /\ EnvPasswords # {NonePw})
                        => /\ lastOp.used \in EnvPasswords
                           /\ ~Has(lastOp.trace, "prompt_unlock")

\* get_keypair without a password found none in the environment, prompted once,
\* was given a wrong one and failed
C28_Witness ==
    /\ lastOp.name = "get_keypair"
    /\ lastOp.password = NonePw
    /\ EnvPasswords = {NonePw}
    /\ Count(lastOp.trace, "prompt_unlock") = 1
    /\ WrongPassword(file.data, lastOp.used)
    /\ lastOp.msg = "Invalid password"

---------------------------------------------------------------------------
(* Further properties of the module-level functions, checked under SpecPure *)

\* C29: deserialize_keypair_from_keyfile_data either returns a keypair or raises
\* KeyFileError, for every input: bytes that are not text, JSON text that is no
\* mapping, and text that starts with 0x without being a public key all raise
\* KeyFileError and nothing else.
C29_DecodeTotal ==
    call.fn = "decode"
        => \/ call.err = "ok" /\ call.flags[1] # NoKeypair
           \/ call.err = "KeyFileError" /\ call.flags[1] = NoKeypair

---------------------------------------------------------------------------
(* Further properties of the keyfile object, checked under Spec *)

\* C31: a set_keypair, encrypt() or decrypt() that fails, for whatever reason,
\* leaves the file's existence, bytes and permission bits as they were; after a
\* decrypt() that failed on a wrong password the file is still encrypted and
\* some password opens it.
C31_UnchangedOnError ==
    (lastOp.name \in {"set_keypair", "encrypt", "decrypt"} /\ lastOp.outcome # "ok")
        => /\ lastOp.sameData
           /\ lastOp.sameMode
           /\ file.exists = pre.exists
           /\ file.mode = pre.mode
           /\ (lastOp.name = "decrypt" /\ lastOp.msg = "Invalid password")
                => /\ is_encrypted(file)
                   /\ \E p \in Passwords : Opened(file, p).err = "ok"

\* decrypt() failed on a wrong password given as argument; the file is as it was
\* and the other password opens it
C31_Witness ==
    /\ lastOp.name = "decrypt"
    /\ lastOp.password \in Passwords
    /\ lastOp.msg = "Invalid password"
    /\ lastOp.sameData
    /\ lastOp.sameMode
    /\ is_encrypted(file)
    /\ \E p \in Passwords \ {lastOp.password} :
          deserialize_keypair_from_keyfile_data(Opened(file, p).data).err = "ok"

---------------------------------------------------------------------------
(* Further properties of the write taken step by step, checked under SpecRace *)

\* C32: in every state, those between the steps of a write that creates the file
\* included, a file holding bytes the keyfile wrote carries no permission bit
\* for group or others.
C32_NoExposureWindow ==
    (file.exists /\ file.data # <<>> /\ file.data = writer.keyfile_data)
        => file.mode % 64 = 0

---------------------------------------------------------------------------
(* Further properties of the keyfile object across one call, checked under Spec *)

\* every field that is set in the record before is in the record after, unchanged
Preserved(before, after) ==
    \A field \in {"accountId", "publicKey", "secretPhrase", "secretSeed", "ss58Address"} :
        before[field] # None => after[field] = before[field]

\* C33: encrypt() and decrypt() lose nothing of the stored record: every field
\* that is set before a successful decrypt() is in the record the file holds
\* after it with the same value, and every field set before a successful
\* encrypt() is in the record that decrypting the new file gives, the mnemonic
\* of a record that also holds a seed included.
C33_NoDataLoss ==
    [][/\ (lastOp'.name = "decrypt" /\ lastOp'.outcome = "ok")
            => \E o \in {Opened(file, lastOp'.used)} :
                 JsonLoads(o.data).ok
                    => (JsonLoads(file'.data).ok
                          /\ Preserved(JsonLoads(o.data).dict, JsonLoads(file'.data).dict))
       /\ (lastOp'.name = "encrypt" /\ lastOp'.outcome = "ok" /\ JsonLoads(file.data).ok)
            => \E o \in {Opened(file', lastOp'.used)} :
                 /\ o.err = "ok"
                 /\ JsonLoads(o.data).ok
                 /\ Preserved(JsonLoads(file.data).dict, JsonLoads(o.data).dict)]_vars

---------------------------------------------------------------------------
(* Further properties of the write, checked under SpecPure *)

\* C34: with overwrite = False and a file at the path the question is put and
\* the file is opened if and only if the answer is exactly y; any other answer
\* (nothing, n, Y, yes) raises KeyFileError and leaves the file as it was; with
\* no file at the path the question is not put and the file is written.
C34_ConfirmDefaultsToDenial ==
    call.fn = "write"
        => LET f == call.flags[1]
               overwrite == call.flags[2]
               answer == call.flags[3]
               trace == call.flags[4]
               after == call.flags[5]
           IN  /\ (f.exists /\ ~overwrite)
                    => /\ Has(trace, "confirm")
                       /\ Has(trace, "open") <=> answer = "y"
                       /\ answer # "y"
                            => /\ call.err = "KeyFileError"
                               /\ after = f
               /\ ~f.exists
                    => /\ ~Has(trace, "confirm")
                       /\ call.err = "ok"
                       /\ after.data = call.data

\* the question was answered with nothing and the file was left alone
C34_Witness ==
    /\ call.fn = "write"
    /\ call.flags[1].exists
    /\ ~call.flags[2]
    /\ call.flags[3] = ""
    /\ call.err = "KeyFileError"
    /\ call.flags[5] = call.flags[1]
    /\ call.flags[5].data # call.data

====
